---- MODULE Spec2Model ----
(***************************************************************************)
(* Model of cmd/csilvm/csilvm.go: the bootstrap program of the csilvm CSI  *)
(* plugin.  main parses its flags, resolves and binds the listen socket,   *)
(* validates the request limit and the node id, builds the gRPC server     *)
(* with its chain of interceptors, builds and sets up the csilvm server,   *)
(* registers the three CSI services and serves.                            *)
(*                                                                         *)
(* Strings the program inspects (socket paths, device lists, node ids) are *)
(* sequences of one-character strings; strings it only passes on are TLA+  *)
(* strings.                                                                *)
(***************************************************************************)
EXTENDS Integers, Sequences, FiniteSets, TLC

VARIABLES
    pc,                 \* position of main
    arg,                \* the argument flag.Parse is handing to its flag
    nargs,              \* number of arguments flag.Parse has consumed
    actual,             \* flag package: names of the flags that were set
    environ,            \* the process environment
    requestLimitF, vgnameF, pvnamesF, defaultFsF, defaultVolumeSizeF,
    socketFileF, socketFileEnvF, removeF, tagsF, probeModulesF, nodeIDF,
    logger,             \* the logger handed to csilvm.SetLogger, lvm.SetLogger
    sock,               \* the resolved listen path
    lis,                \* the listener: "nil", "bound" or "error"
    grpcServer,         \* the grpc server: interceptor chain and services
    opts,               \* []csilvm.ServerOpt
    s,                  \* the csilvm server
    calls,              \* the calls main has made to its collaborators
    fatal,              \* what log.Fatalf wrote, and the exit status
    reqs                \* the unary requests in flight, by connection slot

flagVars == <<requestLimitF, vgnameF, pvnamesF, defaultFsF, defaultVolumeSizeF,
              socketFileF, socketFileEnvF, removeF, tagsF, probeModulesF, nodeIDF>>
parseVars == <<arg, nargs, actual>>
vars == <<pc, arg, nargs, actual, environ, requestLimitF, vgnameF, pvnamesF,
          defaultFsF, defaultVolumeSizeF, socketFileF, socketFileEnvF, removeF,
          tagsF, probeModulesF, nodeIDF, logger, sock, lis, grpcServer, opts, s,
          calls, fatal, reqs>>

----------------------------------------------------------------------------
\* Bounds of the model.

\* Number of command-line arguments flag.Parse is given at most.
MaxArgs == 3
\* Number of requests that can be in flight at once.
MaxReqs == 2

----------------------------------------------------------------------------
\* Constants of the program.

\* Sizes in bytes exceed the model checker's integers: an unsigned number is
\* the sequence of its decimal digits, most significant first.

\* 2 * n: a digit takes a carry exactly when the digit to its right is 5 or more
Double(digits) ==
    LET n == Len(digits)
        low == [i \in 1..n |->
                   (2 * digits[i] + (IF i < n /\ digits[i + 1] >= 5 THEN 1 ELSE 0)) % 10]
    IN  IF n > 0 /\ digits[1] >= 5 THEN <<1>> \o low ELSE low

\* n << k
RECURSIVE Shl(_, _)
Shl(digits, k) == IF k = 0 THEN digits ELSE Shl(Double(digits), k - 1)

defaultDefaultFs == "xfs"
defaultDefaultVolumeSize == Shl(<<1, 0>>, 30)
defaultRequestLimit == 10
defaultMaxStringLen == 128

----------------------------------------------------------------------------
\* Strings.

UnixScheme == <<"u", "n", "i", "x", ":", "/", "/">>
PathT == <<"/", "t">>

\* strings.HasPrefix
HasPrefix(str, prefix) ==
    /\ Len(str) >= Len(prefix)
    /\ SubSeq(str, 1, Len(prefix)) = prefix

\* strings.Split with a one-byte separator
RECURSIVE Split(_, _)
Split(str, sep) ==
    IF \A i \in 1..Len(str) : str[i] # sep
    THEN <<str>>
    ELSE LET k == CHOOSE i \in 1..Len(str) :
                      /\ str[i] = sep
                      /\ \A j \in 1..(i - 1) : str[j] # sep
         IN  <<SubSeq(str, 1, k - 1)>> \o Split(SubSeq(str, k + 1, Len(str)), sep)

\* a string of n bytes
Bytes(n) == [i \in 1..n |-> "x"]

\* os.Getenv: the value of the variable, "" when it is not set
Getenv(key) ==
    IF key \in DOMAIN environ /\ environ[key].set THEN environ[key].val ELSE <<>>

----------------------------------------------------------------------------
\* The command lines and environments the model runs main on.

Arg(name, value) == [name |-> name, value |-> value]
NoArg == Arg("", "")

Args ==
    {Arg("request-limit", n) : n \in {-1, 0, 1, 2}}
    \cup {Arg("volume-group", "vg0")}
    \cup {Arg("devices", <<"a", ",", "b">>)}
    \cup {Arg("default-fs", "ext4")}
    \cup {Arg("default-volume-size", <<5, 1, 2>>)}
    \cup {Arg("unix-addr", p) : p \in {PathT, UnixScheme \o PathT,
                                       UnixScheme \o UnixScheme \o PathT}}
    \cup {Arg("unix-addr-env", "NAME")}
    \cup {Arg("remove-volume-group", b) : b \in BOOLEAN}
    \cup {Arg("tag", t) : t \in {"a", "b"}}
    \cup {Arg("probe-module", m) : m \in {"m1", "m2"}}
    \cup {Arg("node-id", Bytes(n)) : n \in {defaultMaxStringLen, defaultMaxStringLen + 1}}

\* an environment: for each name, whether it is set and to what
Unset == [set |-> FALSE, val |-> <<>>]
SetTo(v) == [set |-> TRUE, val |-> v]

Environs ==
    {[k \in {"NAME"} |-> e] :
        e \in {Unset, SetTo(<<>>), SetTo(PathT), SetTo(UnixScheme \o PathT)}}

----------------------------------------------------------------------------
\* The state after the flags are declared (lines 37-49), before flag.Parse.

NoFatal == [at |-> "none", prefix |-> "", format |-> "", args |-> <<>>, exit |-> 0]
NoServer == [constructed |-> FALSE, vgname |-> "", pvnames |-> <<>>,
             defaultFs |-> "", opts |-> <<>>, setup |-> FALSE]
NoGrpcServer == [constructed |-> FALSE, interceptors |-> <<>>, services |-> <<>>]

Init ==
    /\ pc = "parse"
    /\ arg = NoArg
    /\ nargs = 0
    /\ actual = {}
    /\ environ \in Environs
    /\ requestLimitF = defaultRequestLimit
    /\ vgnameF = ""
    /\ pvnamesF = <<>>
    /\ defaultFsF = defaultDefaultFs
    /\ defaultVolumeSizeF = defaultDefaultVolumeSize
    /\ socketFileF = <<>>
    /\ socketFileEnvF = ""
    /\ removeF = FALSE
    /\ tagsF = <<>>
    /\ probeModulesF = <<>>
    /\ nodeIDF = <<>>
    /\ logger = [prefix |-> <<>>, installed |-> {}]
    /\ sock = <<>>
    /\ lis = "nil"
    /\ grpcServer = NoGrpcServer
    /\ opts = <<>>
    /\ s = NoServer
    /\ calls = <<>>
    /\ fatal = NoFatal
    /\ reqs = [r \in 1..MaxReqs |-> 0]

----------------------------------------------------------------------------
\* flag.Parse (line 50): one argument at a time, each handed to its flag.

\* (variant: the value is put at the front of the list)
M_Set(f, tag) == <<tag>> \o f

\* stringsFlag.Set: *f = append(*f, tag)
Set(f, tag) == Append(f, tag)

\* flag.Parse hands the next argument to the flag it names.
ParseArg(a) ==
    /\ pc = "parse"
    /\ nargs < MaxArgs
    /\ arg' = a
    /\ nargs' = nargs + 1
    /\ actual' = actual \cup {a.name}
    /\ requestLimitF' = IF a.name = "request-limit" THEN a.value ELSE requestLimitF
    /\ vgnameF' = IF a.name = "volume-group" THEN a.value ELSE vgnameF
    /\ pvnamesF' = IF a.name = "devices" THEN a.value ELSE pvnamesF
    /\ defaultFsF' = IF a.name = "default-fs" THEN a.value ELSE defaultFsF
    /\ defaultVolumeSizeF' = IF a.name = "default-volume-size"
                             THEN a.value ELSE defaultVolumeSizeF
    /\ socketFileF' = IF a.name = "unix-addr" THEN a.value ELSE socketFileF
    /\ socketFileEnvF' = IF a.name = "unix-addr-env" THEN a.value ELSE socketFileEnvF
    /\ removeF' = IF a.name = "remove-volume-group" THEN a.value ELSE removeF
    /\ tagsF' = IF a.name = "tag" THEN Set(tagsF, a.value) ELSE tagsF
    /\ probeModulesF' = IF a.name = "probe-module"
                        THEN Set(probeModulesF, a.value) ELSE probeModulesF
    /\ nodeIDF' = IF a.name = "node-id" THEN a.value ELSE nodeIDF
    /\ UNCHANGED <<pc, environ, logger, sock, lis, grpcServer, opts, s, calls,
                   fatal, reqs>>

\* log.Fatalf: the standard logger (no prefix) writes the formatted message
\* and the process exits with status 1.
Fatalf(at, format, args) ==
    [at |-> at, prefix |-> "", format |-> format, args |-> args, exit |-> 1]

\* one argument of a Fatalf call: its verb, the expression passed, its value
FmtArg(verb, expr, val) == [verb |-> verb, expr |-> expr, val |-> val]

\* lines 51-56: flag.Parse has returned; the logger is built and installed.
SetupLogging ==
    /\ pc = "parse"
    /\ arg' = NoArg
    /\ logger' = [prefix |-> <<"[", vgnameF, "]">>, installed |-> {"csilvm", "lvm"}]
    /\ pc' = "addr"
    /\ UNCHANGED <<nargs, actual, environ, flagVars, sock, lis, grpcServer, opts,
                   s, calls, fatal, reqs>>

----------------------------------------------------------------------------
\* lines 57-67: determine the listen address.

\* (variant: == for != on the second flag)
M_ConflictingAddr(socketFile, socketFileEnv) ==
    socketFile # <<>> /\ socketFileEnv = ""

\* line 58: both -unix-addr and -unix-addr-env were given a value
ConflictingAddr(socketFile, socketFileEnv) ==
    socketFile # <<>> /\ socketFileEnv # ""

\* lines 61-64: the environment variable's value if one is named
ResolveSock(socketFile, socketFileEnv) ==
    IF socketFileEnv # "" THEN Getenv(socketFileEnv) ELSE socketFile

\* (variant: the slice starts one byte early and keeps the last "/")
M_StripScheme(path) ==
    IF HasPrefix(path, UnixScheme)
    THEN SubSeq(path, Len(UnixScheme), Len(path))
    ELSE path

\* lines 65-67: strip a leading "unix://"
StripScheme(path) ==
    IF HasPrefix(path, UnixScheme)
    THEN SubSeq(path, Len(UnixScheme) + 1, Len(path))
    ELSE path

ConflictFatal ==
    Fatalf("conflict", "[%s] cannot specify -unix-addr and -unix-addr-env",
           <<FmtArg("%s", "vgnameF", vgnameF)>>)

DetermineListenAddress ==
    /\ pc = "addr"
    /\ IF ConflictingAddr(socketFileF, socketFileEnvF)
       THEN /\ fatal' = ConflictFatal
            /\ pc' = "exit"
            /\ UNCHANGED sock
       ELSE /\ sock' = StripScheme(ResolveSock(socketFileF, socketFileEnvF))
            /\ pc' = "listen"
            /\ UNCHANGED fatal
    /\ UNCHANGED <<parseVars, environ, flagVars, logger, lis, grpcServer, opts, s,
                   calls, reqs>>

\* lines 68-72: net.Listen("unix", sock); whether it succeeds is up to the host.
ListenFatal ==
    Fatalf("listen", "[%s] Failed to listen: %v",
           <<FmtArg("%s", "vgnameF", vgnameF), FmtArg("%v", "err", "listen error")>>)

Listen ==
    /\ pc = "listen"
    /\ calls' = Append(calls, "net.Listen")
    /\ \/ /\ lis' = "bound"
          /\ pc' = "limit"
          /\ UNCHANGED fatal
       \/ /\ lis' = "error"
          /\ fatal' = ListenFatal
          /\ pc' = "exit"
    /\ UNCHANGED <<parseVars, environ, flagVars, logger, sock, grpcServer, opts, s,
                   reqs>>

----------------------------------------------------------------------------
\* lines 73-82: the checks before the servers are built.

\* (variant: 0 is let through)
M_RequestLimitTooSmall(requestLimit) == requestLimit < 0

\* line 74
RequestLimitTooSmall(requestLimit) == requestLimit < 1

\* (variant: the message is given the default instead of the flag's value)
M_RequestLimitFatal ==
    [at |-> "request-limit", prefix |-> "",
     format |-> "request-limit requires a positive, integer value instead of %d",
     args |-> <<[verb |-> "%d", expr |-> "defaultRequestLimit",
                 val |-> defaultRequestLimit]>>,
     exit |-> 1]

RequestLimitFatal ==
    Fatalf("request-limit",
           "request-limit requires a positive, integer value instead of %d",
           <<FmtArg("%d", "requestLimitF", requestLimitF)>>)

\* (variant: the node id is checked before the request limit)
M_CheckRequestLimit ==
    /\ pc = "limit"
    /\ IF Len(nodeIDF) > defaultMaxStringLen
       THEN /\ fatal' = [at |-> "node-id", prefix |-> "",
                         format |-> "node-id cannot be longer than %d bytes: %q",
                         args |-> <<[verb |-> "%d", expr |-> "defaultMaxStringLen",
                                     val |-> defaultMaxStringLen],
                                    [verb |-> "%q", expr |-> "nodeIDF",
                                     val |-> nodeIDF]>>,
                         exit |-> 1]
            /\ pc' = "exit"
       ELSE IF requestLimitF < 1
            THEN fatal' = RequestLimitFatal /\ pc' = "exit"
            ELSE pc' = "nodeid" /\ UNCHANGED fatal
    /\ UNCHANGED <<parseVars, environ, flagVars, logger, sock, lis, grpcServer,
                   opts, s, calls, reqs>>

CheckRequestLimit ==
    /\ pc = "limit"
    /\ IF RequestLimitTooSmall(requestLimitF)
       THEN fatal' = RequestLimitFatal /\ pc' = "exit"
       ELSE pc' = "nodeid" /\ UNCHANGED fatal
    /\ UNCHANGED <<parseVars, environ, flagVars, logger, sock, lis, grpcServer,
                   opts, s, calls, reqs>>

\* (variant: >= for >)
M_NodeIDTooLong(nodeID) == Len(nodeID) >= defaultMaxStringLen

\* line 80
NodeIDTooLong(nodeID) == Len(nodeID) > defaultMaxStringLen

NodeIDFatal ==
    Fatalf("node-id", "node-id cannot be longer than %d bytes: %q",
           <<FmtArg("%d", "defaultMaxStringLen", defaultMaxStringLen),
             FmtArg("%q", "nodeIDF", nodeIDF)>>)

CheckNodeID ==
    /\ pc = "nodeid"
    /\ IF NodeIDTooLong(nodeIDF)
       THEN fatal' = NodeIDFatal /\ pc' = "exit"
       ELSE pc' = "grpc" /\ UNCHANGED fatal
    /\ UNCHANGED <<parseVars, environ, flagVars, logger, sock, lis, grpcServer,
                   opts, s, calls, reqs>>

----------------------------------------------------------------------------
\* lines 83-93: the gRPC server and its chain of unary interceptors.

\* (variant: the serializing interceptor is given first)
M_InterceptorChain(requestLimit) ==
    << [kind |-> "serialize", n |-> 1],
       [kind |-> "limit", n |-> requestLimit],
       [kind |-> "log", n |-> 0] >>

\* lines 86-90: the interceptors in the order they are given to ChainUnaryServer
InterceptorChain(requestLimit) ==
    << [kind |-> "limit", n |-> requestLimit],
       [kind |-> "serialize", n |-> 1],
       [kind |-> "log", n |-> 0] >>

NewGrpcServer ==
    /\ pc = "grpc"
    /\ grpcServer' = [constructed |-> TRUE,
                      interceptors |-> InterceptorChain(requestLimitF),
                      services |-> <<>>]
    /\ calls' = Append(calls, "grpc.NewServer")
    /\ pc' = "newserver"
    /\ UNCHANGED <<parseVars, environ, flagVars, logger, sock, lis, opts, s, fatal,
                   reqs>>

----------------------------------------------------------------------------
\* lines 94-107: the options and the csilvm server.

Opt(name, val) == [opt |-> name, val |-> val]

\* (variant: RemoveVolumeGroup is appended whatever the flag says)
M_ServerOpts(nodeID, defaultVolumeSize, probeModules, remove, tags) ==
    << [opt |-> "NodeID", val |-> nodeID],
       [opt |-> "DefaultVolumeSize", val |-> defaultVolumeSize],
       [opt |-> "ProbeModules", val |-> probeModules],
       [opt |-> "RemoveVolumeGroup", val |-> TRUE] >>
    \o [i \in 1..Len(tags) |-> [opt |-> "Tag", val |-> tags[i]]]

\* lines 94-106
ServerOpts(nodeID, defaultVolumeSize, probeModules, remove, tags) ==
    << Opt("NodeID", nodeID),
       Opt("DefaultVolumeSize", defaultVolumeSize),
       Opt("ProbeModules", probeModules) >>
    \o (IF remove THEN << Opt("RemoveVolumeGroup", TRUE) >> ELSE << >>)
    \o [i \in 1..Len(tags) |-> Opt("Tag", tags[i])]

NewServer ==
    /\ pc = "newserver"
    /\ opts' = ServerOpts(nodeIDF, defaultVolumeSizeF, probeModulesF, removeF, tagsF)
    /\ s' = [constructed |-> TRUE, vgname |-> vgnameF,
             pvnames |-> Split(pvnamesF, ","), defaultFs |-> defaultFsF,
             opts |-> opts', setup |-> FALSE]
    /\ calls' = Append(calls, "csilvm.NewServer")
    /\ pc' = "setup"
    /\ UNCHANGED <<parseVars, environ, flagVars, logger, sock, lis, grpcServer,
                   fatal, reqs>>

\* lines 108-110: s.Setup(); whether it succeeds is up to the host's volume group.
SetupFatal ==
    Fatalf("setup", "[%s] error initializing csilvm plugin: err=%v",
           <<FmtArg("%s", "vgnameF", vgnameF), FmtArg("%v", "err", "setup error")>>)

Setup ==
    /\ pc = "setup"
    /\ calls' = Append(calls, "s.Setup")
    /\ \/ /\ s' = [s EXCEPT !.setup = TRUE]
          /\ pc' = "register"
          /\ UNCHANGED fatal
       \/ /\ fatal' = SetupFatal
          /\ pc' = "exit"
          /\ UNCHANGED s
    /\ UNCHANGED <<parseVars, environ, flagVars, logger, sock, lis, grpcServer,
                   opts, reqs>>

----------------------------------------------------------------------------
\* lines 111-114: the three services, then Serve.

\* (variant: the node service is not registered)
M_Services == <<"Identity", "Controller">>

\* lines 111-113: the services in the order main registers them
Services == <<"Identity", "Controller", "Node">>

\* csi.Register<X>Server(grpcServer, csilvm.<X>ServerValidator(s, ...))
Register ==
    /\ pc = "register"
    /\ Len(grpcServer.services) < Len(Services)
    /\ LET svc == Services[Len(grpcServer.services) + 1]
       IN  /\ grpcServer' = [grpcServer EXCEPT !.services = Append(@, svc)]
           /\ calls' = Append(calls, "csi.Register" \o svc \o "Server")
    /\ UNCHANGED <<pc, parseVars, environ, flagVars, logger, sock, lis, opts, s,
                   fatal, reqs>>

\* line 114: grpcServer.Serve(lis), which does not return
Serve ==
    /\ pc = "register"
    /\ Len(grpcServer.services) = Len(Services)
    /\ calls' = Append(calls, "grpcServer.Serve")
    /\ pc' = "serving"
    /\ UNCHANGED <<parseVars, environ, flagVars, logger, sock, lis, grpcServer,
                   opts, s, fatal, reqs>>

----------------------------------------------------------------------------
\* Serving: each unary request runs down the interceptor chain of the gRPC
\* server, then through the validating adapter into the csilvm server.
\* reqs[r] is the number of stages request r has entered: 0 when slot r holds
\* no request, -1 when the request was turned away.

Reqs == 1..MaxReqs
Rejected == -1

\* the stages a request passes: the interceptors in the order of the chain,
\* then the validator that wraps s (lines 111-113), then s
Pipeline(srv) ==
    [i \in 1..Len(srv.interceptors) |-> srv.interceptors[i].kind]
    \o <<"validator", "server">>

\* the stages request r has entered, in the order it entered them
Entered(r) ==
    IF reqs[r] = Rejected THEN <<>> ELSE SubSeq(Pipeline(grpcServer), 1, reqs[r])

\* the requests that are inside the interceptor of this kind
Inside(kind) ==
    {r \in Reqs : \E i \in 1..Len(Entered(r)) : Entered(r)[i] = kind}

\* csilvm.RequestLimitInterceptor(n): at most n requests inside at once;
\* csilvm.SerializingInterceptor(): one at a time; csilvm.LoggingInterceptor():
\* logs and calls on.
CanEnter(stage) ==
    CASE stage.kind = "limit" -> Cardinality(Inside("limit")) < stage.n
      [] stage.kind = "serialize" -> Inside("serialize") = {}
      [] OTHER -> TRUE

\* request r enters its next stage
Advance(r) ==
    /\ pc = "serving"
    /\ reqs[r] >= 0
    /\ reqs[r] < Len(Pipeline(grpcServer))
    /\ LET i == reqs[r] + 1
       IN  i <= Len(grpcServer.interceptors) => CanEnter(grpcServer.interceptors[i])
    /\ reqs' = [reqs EXCEPT ![r] = @ + 1]
    /\ UNCHANGED <<pc, parseVars, environ, flagVars, logger, sock, lis, grpcServer,
                   opts, s, calls, fatal>>

\* the request-limit interceptor turns request r away: the limit is reached
Reject(r) ==
    /\ pc = "serving"
    /\ reqs[r] >= 0
    /\ reqs[r] < Len(grpcServer.interceptors)
    /\ LET stage == grpcServer.interceptors[reqs[r] + 1]
       IN  stage.kind = "limit" /\ ~CanEnter(stage)
    /\ reqs' = [reqs EXCEPT ![r] = Rejected]
    /\ UNCHANGED <<pc, parseVars, environ, flagVars, logger, sock, lis, grpcServer,
                   opts, s, calls, fatal>>

\* the server has answered request r (or r was turned away): the interceptors
\* unwind and the slot is free for the next request
Return(r) ==
    /\ pc = "serving"
    /\ reqs[r] \in {Rejected, Len(Pipeline(grpcServer))}
    /\ reqs' = [reqs EXCEPT ![r] = 0]
    /\ UNCHANGED <<pc, parseVars, environ, flagVars, logger, sock, lis, grpcServer,
                   opts, s, calls, fatal>>

----------------------------------------------------------------------------

Next ==
    \/ \E a \in Args : ParseArg(a)
    \/ SetupLogging
    \/ DetermineListenAddress
    \/ Listen
    \/ CheckRequestLimit
    \/ CheckNodeID
    \/ NewGrpcServer
    \/ NewServer
    \/ Setup
    \/ Register
    \/ Serve
    \/ \E r \in Reqs : Advance(r)
    \/ \E r \in Reqs : Reject(r)
    \/ \E r \in Reqs : Return(r)

Spec == Init /\ [][Next]_vars

----------------------------------------------------------------------------
\* Vocabulary of the properties.

Called(c) == \E i \in 1..Len(calls) : calls[i] = c
IsPrefix(a, b) == Len(a) <= Len(b) /\ \A i \in 1..Len(a) : a[i] = b[i]
BothAddrGiven == socketFileF # <<>> /\ socketFileEnvF # ""
NothingConstructed ==
    /\ ~grpcServer.constructed
    /\ ~s.constructed
    /\ ~Called("grpc.NewServer")
    /\ ~Called("csilvm.NewServer")
    /\ ~Called("s.Setup")
    /\ ~Called("grpcServer.Serve")
    /\ pc # "serving"

\* C1: with -unix-addr and -unix-addr-env both non-empty, main ends in a fatal
\* exit before it calls net.Listen: no call to a collaborator is ever made, no
\* listener bound, no server constructed, serving never reached, and main has
\* a next step until it has exited.
C1_ConflictFatalBeforeListen ==
    (pc # "parse" /\ BothAddrGiven) =>
        /\ calls = <<>>
        /\ lis = "nil"
        /\ NothingConstructed
        /\ pc \in {"addr", "exit"}
        /\ pc = "exit" => (fatal.at = "conflict" /\ fatal.exit = 1)
        /\ pc # "exit" => ENABLED Next

C1_Witness ==
    /\ pc = "exit"
    /\ fatal.at = "conflict"
    /\ socketFileF = UnixScheme \o PathT
    /\ socketFileEnvF = "NAME"

\* C2: once resolved, the listen path is the value of the environment variable
\* -unix-addr-env names ("" when unset), else the -unix-addr value, with one
\* leading "unix://" removed if present and nothing else changed.
C2_ListenPathResolved ==
    (pc \notin {"parse", "addr"} /\ fatal.at # "conflict") =>
        LET raw == IF socketFileEnvF # ""
                   THEN IF environ[socketFileEnvF].set
                        THEN environ[socketFileEnvF].val ELSE <<>>
                   ELSE socketFileF
            prefixed == /\ Len(raw) >= 7
                        /\ <<raw[1], raw[2], raw[3], raw[4], raw[5], raw[6], raw[7]>>
                               = <<"u", "n", "i", "x", ":", "/", "/">>
        IN  /\ prefixed => raw = <<"u", "n", "i", "x", ":", "/", "/">> \o sock
            /\ ~prefixed => raw = sock

C2_Witness ==
    /\ pc = "listen"
    /\ socketFileEnvF = "NAME"
    /\ environ["NAME"].set
    /\ environ["NAME"].val = <<"u", "n", "i", "x", ":", "/", "/", "/", "t">>
    /\ sock = <<"/", "t">>

\* C3: with -request-limit below 1 the run never constructs the gRPC server
\* or the csilvm server and never serves: it does not get past the
\* request-limit check, has a next step until it has exited, and exits with
\* status 1; a limit of 1 or more never fails that check.
C3_RequestLimitFatal ==
    /\ (pc # "parse" /\ requestLimitF < 1) =>
           /\ NothingConstructed
           /\ pc \in {"addr", "listen", "limit", "exit"}
           /\ pc = "exit" => fatal.exit = 1
           /\ pc # "exit" => ENABLED Next
    /\ fatal.at = "request-limit" => requestLimitF < 1

C3_Witness ==
    /\ pc = "exit"
    /\ fatal.at = "request-limit"
    /\ requestLimitF = 0

\* C4: the node-id check fails exactly for a node id of more than 128 bytes:
\* with 129 bytes or more nothing is ever constructed, the run does not get
\* past the check, has a next step until it has exited, and exits with status
\* 1; with 128 bytes or fewer the node-id fatal never happens.
C4_NodeIDStrictBound ==
    /\ (pc # "parse" /\ Len(nodeIDF) >= 129) =>
           /\ NothingConstructed
           /\ pc \in {"addr", "listen", "limit", "nodeid", "exit"}
           /\ pc = "exit" => fatal.exit = 1
           /\ pc # "exit" => ENABLED Next
    /\ Len(nodeIDF) <= 128 => fatal.at # "node-id"
    /\ (pc \notin {"parse", "addr", "listen", "limit", "nodeid", "exit"})
           => Len(nodeIDF) <= 128

C4_Witness ==
    /\ pc = "exit"
    /\ fatal.at = "node-id"
    /\ Len(nodeIDF) = 129

\* a run with a node id of exactly 128 bytes goes on to construct the server
C4_BoundaryPasses ==
    /\ Len(nodeIDF) = 128
    /\ s.constructed

\* the values of the Tag options of an option list, in the order of the list
TagOptions(o) ==
    LET idx == {i \in 1..Len(o) : o[i].opt = "Tag"}
        nth[k \in 0..Cardinality(idx)] ==
            IF k = 0 THEN 0
            ELSE CHOOSE i \in idx : i > nth[k - 1]
                     /\ \A j \in idx : j > nth[k - 1] => i <= j
    IN  [k \in 1..Cardinality(idx) |-> o[nth[k]].val]

\* what one step of a run does to the two repeatable flags
C5_ParseStep ==
    IF nargs' = nargs + 1
    THEN /\ arg'.name = "tag" =>
                 /\ tagsF' = tagsF \o <<arg'.value>>
                 /\ probeModulesF' = probeModulesF
         /\ arg'.name = "probe-module" =>
                 /\ probeModulesF' = probeModulesF \o <<arg'.value>>
                 /\ tagsF' = tagsF
         /\ arg'.name \notin {"tag", "probe-module"} =>
                 /\ tagsF' = tagsF
                 /\ probeModulesF' = probeModulesF
    ELSE tagsF' = tagsF /\ probeModulesF' = probeModulesF

\* what the constructed server was given
C5_OptionsInOrder ==
    s.constructed =>
        /\ TagOptions(s.opts) = tagsF
        /\ \E i \in 1..Len(s.opts) :
               s.opts[i].opt = "ProbeModules" /\ s.opts[i].val = probeModulesF

\* C5: every -tag / -probe-module argument appends its value at the end of its
\* own list and leaves the other list alone, any other argument leaves both
\* alone, the lists never change after parsing, and the server is given one
\* Tag option per tag in that order and the probe modules in that order.
C5_RepeatableFlagsInOrder == [][C5_ParseStep]_vars /\ []C5_OptionsInOrder

C5_Witness ==
    /\ s.constructed
    /\ tagsF = <<"b", "a">>
    /\ probeModulesF = <<"m2">>
    /\ TagOptions(s.opts) = <<"b", "a">>

\* the calls of a complete startup, in order
StartupCalls ==
    <<"net.Listen", "grpc.NewServer", "csilvm.NewServer", "s.Setup",
      "csi.RegisterIdentityServer", "csi.RegisterControllerServer",
      "csi.RegisterNodeServer", "grpcServer.Serve">>

\* C6: startup happens in one order: listen, construct, set up, register
\* identity, controller and node, then serve; serving is entered only with the
\* listener bound, setup completed and all three services registered, and once
\* Serve is called main stays in it.
C6_StartupOrder ==
    /\ IsPrefix(calls, StartupCalls)
    /\ Called("csilvm.NewServer") => lis = "bound"
    /\ Called("s.Setup") => s.constructed
    /\ Called("csi.RegisterIdentityServer") => s.setup
    /\ Called("grpcServer.Serve") =>
           /\ pc = "serving"
           /\ fatal.at = "none"
    /\ pc = "serving" =>
           /\ lis = "bound"
           /\ s.constructed
           /\ s.setup
           /\ grpcServer.services = <<"Identity", "Controller", "Node">>
           /\ calls = StartupCalls

C6_Witness ==
    /\ pc = "serving"
    /\ calls = StartupCalls
    /\ \E r \in Reqs : reqs[r] > 0

\* C7: every request enters the stages in the order limit, serialize, log,
\* validator, server; at most -request-limit requests are past the limit stage
\* at once and at most one is beneath the serialize stage.
C7_InterceptorPipeline ==
    /\ \A r \in Reqs :
           IsPrefix(Entered(r), <<"limit", "serialize", "log", "validator", "server">>)
    /\ pc # "serving" => \A r \in Reqs : reqs[r] = 0
    /\ pc = "serving" =>
           /\ Cardinality(Inside("limit")) <= requestLimitF
           /\ Cardinality(Inside("serialize")) <= 1
           /\ Cardinality({r \in Reqs : reqs[r] >= 2}) <= 1

C7_Witness ==
    /\ pc = "serving"
    /\ requestLimitF = 2
    /\ Entered(1) = <<"limit", "serialize", "log", "validator", "server">>
    /\ Entered(2) = <<"limit">>

\* the limit is reached and a further request is turned away
C7_LimitReached ==
    /\ pc = "serving"
    /\ requestLimitF = 1
    /\ Cardinality(Inside("limit")) = 1
    /\ \E r \in Reqs : reqs[r] = Rejected

\* the three configuration errors main detects by itself
LocalErrors == {"conflict", "request-limit", "node-id"}

\* the diagnostic names the volume group: by the logger's prefix or an argument
IdentifiesVolumeGroup ==
    \/ fatal.prefix # ""
    \/ \E i \in 1..Len(fatal.args) : fatal.args[i].expr = "vgnameF"

\* the diagnostic carries the value that was rejected
IdentifiesOffendingValue ==
    \E i \in 1..Len(fatal.args) :
        \/ fatal.at = "conflict"
               /\ fatal.args[i].expr \in {"socketFileF", "socketFileEnvF"}
        \/ fatal.at = "request-limit" /\ fatal.args[i].expr = "requestLimitF"
        \/ fatal.at = "node-id" /\ fatal.args[i].expr = "nodeIDF"

CountOpt(o, name) == Cardinality({i \in 1..Len(o) : o[i].opt = name})

\* C9: the server's options hold RemoveVolumeGroup exactly when
\* -remove-volume-group was set; NodeID, DefaultVolumeSize and ProbeModules are
\* always there, once each, with the flag's value or its default (filesystem
\* "xfs", size 10737418240); every Tag option comes after all other options.
C9_ServerOptions ==
    s.constructed =>
        /\ opts = s.opts
        /\ CountOpt(opts, "NodeID") = 1
        /\ CountOpt(opts, "DefaultVolumeSize") = 1
        /\ CountOpt(opts, "ProbeModules") = 1
        /\ CountOpt(opts, "RemoveVolumeGroup") = (IF removeF THEN 1 ELSE 0)
        /\ "remove-volume-group" \notin actual => ~removeF
        /\ \A i \in 1..Len(opts) :
               /\ opts[i].opt = "NodeID" => opts[i].val = nodeIDF
               /\ opts[i].opt = "DefaultVolumeSize" =>
                      /\ opts[i].val = defaultVolumeSizeF
                      /\ "default-volume-size" \notin actual =>
                             opts[i].val = <<1, 0, 7, 3, 7, 4, 1, 8, 2, 4, 0>>
               /\ opts[i].opt = "ProbeModules" => opts[i].val = probeModulesF
               /\ opts[i].opt \in {"NodeID", "DefaultVolumeSize", "ProbeModules",
                                   "RemoveVolumeGroup", "Tag"}
        /\ \A i, j \in 1..Len(opts) :
               (opts[i].opt = "Tag" /\ opts[j].opt # "Tag") => j < i
        /\ s.defaultFs = defaultFsF
        /\ "default-fs" \notin actual => s.defaultFs = "xfs"

C9_Witness ==
    /\ s.constructed
    /\ removeF
    /\ Len(tagsF) = 2
    /\ actual = {"remove-volume-group", "tag"}
    /\ CountOpt(opts, "RemoveVolumeGroup") = 1
    /\ Len(opts) = 6

\* C10: the fatal checks run in the order conflict, listen, request-limit,
\* node-id, setup, and the run ends at the first that fails: each fatal exit
\* implies that every earlier check passed, a request-limit or node-id fatal
\* implies a bound listener, and a fatal exit is final and precedes every
\* registration and Serve.
C10_FatalOrder ==
    LET limitBad == requestLimitF < 1
        idBad == Len(nodeIDF) > 128
    IN  /\ pc = "exit" <=> fatal.at # "none"
        /\ fatal.at # "none" =>
               /\ fatal.exit = 1
               /\ grpcServer.services = <<>>
               /\ ~Called("csi.RegisterIdentityServer")
               /\ ~Called("grpcServer.Serve")
        /\ fatal.at = "conflict" => BothAddrGiven /\ calls = <<>>
        /\ fatal.at = "listen" =>
               ~BothAddrGiven /\ lis = "error" /\ calls = <<"net.Listen">>
        /\ fatal.at = "request-limit" =>
               /\ ~BothAddrGiven /\ lis = "bound" /\ limitBad
               /\ calls = <<"net.Listen">>
        /\ fatal.at = "node-id" =>
               /\ ~BothAddrGiven /\ lis = "bound" /\ ~limitBad /\ idBad
               /\ calls = <<"net.Listen">>
        /\ fatal.at = "setup" =>
               /\ ~BothAddrGiven /\ lis = "bound" /\ ~limitBad /\ ~idBad
               /\ calls = SubSeq(StartupCalls, 1, 4)
               /\ ~s.setup

C10_Witness ==
    /\ pc = "exit"
    /\ fatal.at = "request-limit"
    /\ requestLimitF < 1
    /\ Len(nodeIDF) > 128
    /\ lis = "bound"

====
